---- MODULE Spec2Model ----
(***************************************************************************)
(* A model of downloader.py (class DanCarlinDownloader): login, the        *)
(* catalog scraper get_download_links, the batch fetcher download_all and  *)
(* the item downloader download_episode.                                   *)
(*                                                                         *)
(* Python strings are sequences of one-character strings, so that split,   *)
(* strip, endswith, the character filter and the substring test are        *)
(* computed character by character as the code computes them.  Python's    *)
(* None and '' are both falsy and the code tests them together             *)
(* ("not filename or filename == ''"), so a missing name is the empty      *)
(* sequence.                                                               *)
(***************************************************************************)
EXTENDS Integers, Sequences, FiniteSets, TLC

VARIABLES
    \* login
    loginPc, hidden, loginData, responseUrl, loginResult,
    \* get_download_links
    scrapePc, page, links,
    \* filename resolution of download_episode, alone
    namePc, nameResp, nameUrl, filename,
    \* filename clean-up of download_episode, applied repeatedly
    cleanLog,
    \* download_all and its pool of download_episode invocations
    batchPc, episodes, maxConcurrent, queue, inv, fs

loginVars == <<loginPc, hidden, loginData, responseUrl, loginResult>>
scrapeVars == <<scrapePc, page, links>>
nameVars == <<namePc, nameResp, nameUrl, filename>>
cleanVars == <<cleanLog>>
poolVars == <<batchPc, episodes, maxConcurrent, queue, inv, fs>>
vars == <<loginVars, scrapeVars, nameVars, cleanVars, poolVars>>

(***************************************************************************)
(* Bounds of the model.                                                    *)
(***************************************************************************)
\* longest raw name fed to the clean-up
MaxNameLen == 5
\* how many times the clean-up is applied in a row
MaxApply == 2
\* longest quoted value tried after "filename=" in a content-disposition header
MaxValueLen == 3
\* most rows of a downloads table
MaxRows == 3
\* most rows of the downloads table a batch is run on
MaxCatalog == 2
\* largest max_concurrent tried
MaxConcurrent == 2
\* chunks iter_content yields for one body
BodyChunks == 2
\* most hidden inputs of the login form
MaxHidden == 2

(***************************************************************************)
(* String literals of the source.                                          *)
(***************************************************************************)
FilenameToken == <<"f","i","l","e","n","a","m","e","=">>
DownloadFileToken == <<"d","o","w","n","l","o","a","d","_","f","i","l","e","=">>
EpisodePrefix == <<"d","a","n","_","c","a","r","l","i","n","_","e","p","i","s","o","d","e","_">>
Mp3 == <<".","m","p","3">>
DownloadWord == <<"d","o","w","n","l","o","a","d">>
MyAccount == <<"m","y","-","a","c","c","o","u","n","t">>
base_url == <<"h","t","t","p","s",":","/","/","w","w","w",".","d","a","n","c","a","r","l","i","n",".","c","o","m">>
login_url == base_url \o <<"/","w","p","-","l","o","g","i","n",".","p","h","p">>
downloads_url == base_url \o <<"/","m","y","-","a","c","c","o","u","n","t","/","d","o","w","n","l","o","a","d","s","/">>

\* The characters of the model's strings are the code points U+0000 to U+00FF.
\* str.isalnum() is Unicode-aware: of these it accepts the ASCII letters and
\* digits and the letters and numerics of the upper half (U+00AA, U+00B2, U+00B3,
\* U+00B5, U+00B9, U+00BA, U+00BC to U+00BE, U+00C0 to U+00D6, U+00D8 to U+00F6,
\* U+00F8 to U+00FF)
AlnumChars ==
    {"a","b","c","d","e","f","g","h","i","j","k","l","m","n","o","p","q","r","s","t","u","v","w","x","y","z",
     "A","B","C","D","E","F","G","H","I","J","K","L","M","N","O","P","Q","R","S","T","U","V","W","X","Y","Z",
     "0","1","2","3","4","5","6","7","8","9",
     "ª","²","³","µ","¹","º","¼","½","¾","À","Á","Â","Ã","Ä","Å","Æ","Ç","È","É","Ê","Ë","Ì","Í","Î","Ï","Ð",
     "Ñ","Ò","Ó","Ô","Õ","Ö","Ø","Ù","Ú","Û","Ü","Ý","Þ","ß","à","á","â","ã","ä","å","æ","ç","è","é","ê","ë",
     "ì","í","î","ï","ð","ñ","ò","ó","ô","õ","ö","ø","ù","ú","û","ü","ý","þ","ÿ"}

\* the characters str.isspace() accepts, which str.strip() removes: U+0009 to
\* U+000D, U+001C to U+001F, the space, U+0085 and U+00A0
WhitespaceChars ==
    {"\t", "\n", "", "\f", "\r", "", "", "", "", " ", "", " "}

(***************************************************************************)
(* Python's string operations.                                             *)
(***************************************************************************)
\* s[i:] for a 1-based i
Drop(s, i) == SubSeq(s, i, Len(s))

\* s.startswith(p)
StartsWith(s, p) == Len(s) >= Len(p) /\ SubSeq(s, 1, Len(p)) = p

\* s.endswith(p)
EndsWith(s, p) == Len(s) >= Len(p) /\ SubSeq(s, Len(s) - Len(p) + 1, Len(s)) = p

\* the 1-based positions at which sub occurs in s
Occurrences(s, sub) ==
    {i \in 1..(Len(s) - Len(sub) + 1) : SubSeq(s, i, i + Len(sub) - 1) = sub}

\* sub in s
Contains(s, sub) == Occurrences(s, sub) # {}

Min(S) == CHOOSE x \in S : \A y \in S : x <= y
Max(S) == CHOOSE x \in S : \A y \in S : x >= y

\* s.split(sep)[-1]: what follows the last occurrence of sep, s when there is none
SplitLast(s, sep) ==
    IF Contains(s, sep) THEN Drop(s, Max(Occurrences(s, sep)) + Len(sep)) ELSE s

\* s.split(sep)[0]: what precedes the first occurrence of sep, s when there is none
SplitFirst(s, sep) ==
    IF Contains(s, sep) THEN SubSeq(s, 1, Min(Occurrences(s, sep)) - 1) ELSE s

\* s.strip(c) for a single character c: every leading and trailing c removed
Strip(s, c) ==
    LET keep == {i \in 1..Len(s) : s[i] # c}
    IN IF keep = {} THEN <<>> ELSE SubSeq(s, Min(keep), Max(keep))

\* os.path.basename(p): what follows the last "/"
Basename(p) == SplitLast(p, <<"/">>)

\* the first position in s of a character of the set cs, Len(s) + 1 when there is none
FirstOf(s, cs) == Min({i \in 1..Len(s) : s[i] \in cs} \cup {Len(s) + 1})

\* urlparse(url).path of an absolute URL: the scheme and the network location are
\* dropped, the fragment and the query cut off, and the parameters of the last
\* segment (from its first ";") removed
UrlPath(url) ==
    LET afterScheme == Drop(url, FirstOf(url, {":"}) + 1)
        afterNetloc == IF StartsWith(afterScheme, <<"/","/">>)
                       THEN LET r == Drop(afterScheme, 3)
                            IN Drop(r, FirstOf(r, {"/","?","#"}))
                       ELSE afterScheme
        noFragment == SubSeq(afterNetloc, 1, FirstOf(afterNetloc, {"#"}) - 1)
        noQuery == SubSeq(noFragment, 1, FirstOf(noFragment, {"?"}) - 1)
        lastSlash == Max({i \in 1..Len(noQuery) : noQuery[i] = "/"} \cup {0})
        semi == Min({i \in (lastSlash + 1)..Len(noQuery) : noQuery[i] = ";"}
                    \cup {Len(noQuery) + 1})
    IN SubSeq(noQuery, 1, semi - 1)

(***************************************************************************)
(* download_episode, lines 112-135: the name of the file.                  *)
(***************************************************************************)
\* lines 113-117: the name the content-disposition header gives, <<>> for None
HeaderFilename(resp) ==
    IF resp.hasDisp /\ Contains(resp.disp, FilenameToken)
    THEN Strip(Strip(SplitLast(resp.disp, FilenameToken), "\""), "'")
    ELSE <<>>

\* line 120: "if not filename or filename == ''"
FallsBackToUrl(name) == name = <<>>

\* lines 122-124: the basename of the final URL's path, when that path is not empty
PathFilename(resp, name) ==
    LET final_path == UrlPath(resp.url)
    IN IF final_path # <<>> THEN Basename(final_path) ELSE name

\* line 127 without its test for 'download'
NeedsGeneratedOnlyEmpty(name) == name = <<>>

\* line 127: "if not filename or filename == '' or filename == 'download'"
NeedsGenerated(name) == name = <<>> \/ name = DownloadWord

\* lines 129-130
GeneratedFilename(url) ==
    EpisodePrefix \o SplitFirst(SplitLast(url, DownloadFileToken), <<"&">>) \o Mp3

\* lines 112-130
ResolveFilename(resp, url) ==
    LET fromHeader == HeaderFilename(resp)
    IN IF FallsBackToUrl(fromHeader)
       THEN LET fromPath == PathFilename(resp, fromHeader)
            IN IF NeedsGenerated(fromPath) THEN GeneratedFilename(url) ELSE fromPath
       ELSE fromHeader

\* line 133: the characters the filter keeps
KeptChar(c) == c \in AlnumChars \/ c \in {" ", "-", "_", "."}

\* line 133
FilterChars(name) == SelectSeq(name, KeptChar)

\* the .mp3 rule without its test: the suffix is appended every time
EnsureMp3Always(name) == name \o Mp3

\* lines 134-135
EnsureMp3(name) == IF ~EndsWith(name, Mp3) THEN name \o Mp3 ELSE name

\* lines 132-135
CleanUp(name) == EnsureMp3(FilterChars(name))

(***************************************************************************)
(* get_download_links, lines 51-86.  The parsed page is what the calls of  *)
(* BeautifulSoup find: whether a table of class                            *)
(* woocommerce-table--order-downloads is there, and for each tr under it   *)
(* whether it holds a th, its td.download-product (with its text), its     *)
(* td.download-file, the a.woocommerce-MyAccount-downloads-file in that    *)
(* cell and the anchor's href.  None is Python's None.                     *)
(***************************************************************************)
None == "None"

\* str.strip(): leading and trailing whitespace removed
StripWhitespace(s) ==
    LET keep == {i \in 1..Len(s) : s[i] \notin WhitespaceChars}
    IN IF keep = {} THEN <<>> ELSE SubSeq(s, Min(keep), Max(keep))

\* line 68: "if row.find('th')"
IsHeaderRow(row) == row.th

\* line 74: "if title_cell and download_cell"
HasBothCells(row) == row.product.present /\ row.file.present

\* line 78 without its test of the href
HasAnchor(row) == row.file.anchor

\* line 78: "if download_link and download_link.get('href')"
HasLink(row) == row.file.anchor /\ row.file.href \notin {None, ""}

\* lines 75 and 79-82
EntryOf(row) == [title |-> StripWhitespace(row.product.text), url |-> row.file.href]

\* lines 66-83: the loop over the rows
RECURSIVE CollectLinks(_, _)
CollectLinks(rows, download_links) ==
    IF rows = <<>> THEN download_links
    ELSE LET row == Head(rows)
         IN IF IsHeaderRow(row) THEN CollectLinks(Tail(rows), download_links)
            ELSE IF HasBothCells(row) /\ HasLink(row)
                 THEN CollectLinks(Tail(rows), Append(download_links, EntryOf(row)))
                 ELSE CollectLinks(Tail(rows), download_links)

\* lines 59-86
DownloadLinks(pg) == IF ~pg.table THEN <<>> ELSE CollectLinks(pg.rows, <<>>)

(***************************************************************************)
(* login, lines 20-49.                                                     *)
(***************************************************************************)
\* lines 29-35
FixedLoginData(username, password) ==
    [n \in {"log", "pwd", "wp-submit", "redirect_to", "testcookie"} |->
        CASE n = "log" -> username
          [] n = "pwd" -> password
          [] n = "wp-submit" -> "Log In"
          [] n = "redirect_to" -> downloads_url
          [] n = "testcookie" -> "1"]

\* line 39: login_data[name] = value
SetItem(d, name, value) ==
    [n \in DOMAIN d \cup {name} |-> IF n = name THEN value ELSE d[n]]

\* lines 38-39: the loop over the hidden inputs
RECURSIVE AddHidden(_, _)
AddHidden(d, fields) ==
    IF fields = <<>> THEN d
    ELSE AddHidden(SetItem(d, Head(fields).name, Head(fields).value), Tail(fields))

\* line 44: "'my-account' in response.url"
LoginSucceeded(url) == Contains(url, MyAccount)

(***************************************************************************)
(* The variables a specification does not use rest at these values.        *)
(***************************************************************************)
LoginAtRest ==
    /\ loginPc = "off"
    /\ hidden = <<>>
    /\ loginData = <<>>
    /\ responseUrl = <<>>
    /\ loginResult = FALSE

ScrapeAtRest ==
    /\ scrapePc = "off"
    /\ page = [table |-> FALSE, rows |-> <<>>]
    /\ links = <<>>

NameAtRest ==
    /\ namePc = "off"
    /\ nameResp = [hasDisp |-> FALSE, disp |-> <<>>, url |-> <<>>]
    /\ nameUrl = <<>>
    /\ filename = <<>>

CleanAtRest == cleanLog = <<>>

PoolAtRest ==
    /\ batchPc = "off"
    /\ episodes = <<>>
    /\ maxConcurrent = 1
    /\ queue = <<>>
    /\ inv = <<>>
    /\ fs = <<>>

\* every sequence over the set S of length at most n
SeqsUpTo(S, n) == UNION {[1..k -> S] : k \in 0..n}

(***************************************************************************)
(* SpecClean: the clean-up of lines 132-135 applied to a raw name, and     *)
(* then to its own result.                                                 *)
(***************************************************************************)
NameAlphabet == {".", "m", "p", "3", "/", " ", "é"}

RawNames == SeqsUpTo(NameAlphabet, MaxNameLen)

InitClean ==
    /\ cleanLog \in {<<n>> : n \in RawNames}
    /\ LoginAtRest /\ ScrapeAtRest /\ NameAtRest /\ PoolAtRest

\* cleanLog[1] is the raw name, cleanLog[k + 1] the result of the k-th application
ApplyCleanUp ==
    /\ Len(cleanLog) >= 1
    /\ Len(cleanLog) <= MaxApply
    /\ cleanLog' = Append(cleanLog, CleanUp(cleanLog[Len(cleanLog)]))
    /\ UNCHANGED <<loginVars, scrapeVars, nameVars, poolVars>>

NextClean == ApplyCleanUp

SpecClean == InitClean /\ [][NextClean]_vars

(***************************************************************************)
(* SpecName: lines 112-135 of download_episode on a response and the URL   *)
(* that was requested.                                                     *)
(***************************************************************************)
QuoteAlphabet == {"\"", "'", "a"}

\* what follows "filename=" in the headers tried
HeaderValues == SeqsUpTo(QuoteAlphabet, MaxValueLen)

DispositionHeaders ==
    {<<"a","t","t","a","c","h","m","e","n","t",";"," ">> \o FilenameToken \o v : v \in HeaderValues}
    \cup {<<"a","t","t","a","c","h","m","e","n","t">>,
          <<"a","t","t","a","c","h","m","e","n","t",";"," ">> \o FilenameToken
              \o <<"\"","E","p","i","s","o","d","e"," ","3","0","0",".","m","p","3","\"">>}

FinalUrls ==
    {base_url \o p : p \in
        {<<>>,
         <<"/","m","e","d","i","a","/">>,
         <<"/","d","o","w","n","l","o","a","d","s","/","d","o","w","n","l","o","a","d">>,
         <<"/","f","i","l","e","s","/","e","p","1",".","m","p","3">>,
         <<"/","f","i","l","e","s","/","e","p"," ","2",".","m","p","3",";","v","=","1","?","n","e","x","t","=","/","d","o","w","n","l","o","a","d","#","t","o","p">>}}

RequestUrls ==
    {base_url \o p : p \in
        {<<"/","?","d","o","w","n","l","o","a","d","_","f","i","l","e","=","4","8","2","1","&","o","r","d","e","r","=","w","c","_","o","r","d","e","r","_","1">>,
         <<"/","?","o","r","d","e","r","=","w","c","_","o","r","d","e","r","_","1","&","d","o","w","n","l","o","a","d","_","f","i","l","e","=","7","7">>,
         <<"/","e","p","i","s","o","d","e","?","i","d","=","5","&","x","=","1">>}}

Responses ==
    {[hasDisp |-> FALSE, disp |-> <<>>, url |-> u] : u \in FinalUrls}
    \cup {[hasDisp |-> TRUE, disp |-> d, url |-> u] : d \in DispositionHeaders, u \in FinalUrls}

InitName ==
    /\ namePc = "response"
    /\ nameResp \in Responses
    /\ nameUrl \in RequestUrls
    /\ filename = <<>>
    /\ LoginAtRest /\ ScrapeAtRest /\ CleanAtRest /\ PoolAtRest

\* lines 112-130
Resolve ==
    /\ namePc = "response"
    /\ filename' = ResolveFilename(nameResp, nameUrl)
    /\ namePc' = "resolved"
    /\ UNCHANGED <<nameResp, nameUrl, loginVars, scrapeVars, cleanVars, poolVars>>

\* lines 132-135
Clean ==
    /\ namePc = "resolved"
    /\ filename' = CleanUp(filename)
    /\ namePc' = "cleaned"
    /\ UNCHANGED <<nameResp, nameUrl, loginVars, scrapeVars, cleanVars, poolVars>>

NextName == Resolve \/ Clean

SpecName == InitName /\ [][NextName]_vars

(***************************************************************************)
(* SpecScrape: get_download_links on a downloads page.                     *)
(***************************************************************************)
ProductCells ==
    {[present |-> FALSE, text |-> <<>>],
     [present |-> TRUE, text |-> <<"\r", "\n", " ", " ", "E", "p", " ", "1", "\t", "", "\n">>]}

FileCells ==
    {[present |-> FALSE, anchor |-> FALSE, href |-> None],
     [present |-> TRUE, anchor |-> FALSE, href |-> None]}
    \cup {[present |-> TRUE, anchor |-> TRUE, href |-> h] : h \in {None, "", "u1", "u2"}}

TableRows == [th : BOOLEAN, product : ProductCells, file : FileCells]

Pages ==
    {[table |-> FALSE, rows |-> <<>>]}
    \cup {[table |-> TRUE, rows |-> r] : r \in SeqsUpTo(TableRows, MaxRows)}

InitScrape ==
    /\ scrapePc = "ready"
    /\ page = [table |-> FALSE, rows |-> <<>>]
    /\ links = <<>>
    /\ LoginAtRest /\ NameAtRest /\ CleanAtRest /\ PoolAtRest

\* lines 51-86, the page fetched
GetDownloadLinks ==
    /\ scrapePc = "ready"
    /\ \E pg \in Pages :
        /\ page' = pg
        /\ links' = DownloadLinks(pg)
    /\ scrapePc' = "returned"
    /\ UNCHANGED <<loginVars, nameVars, cleanVars, poolVars>>

\* line 55: session.get raises, and nothing in get_download_links catches it
GetDownloadLinksRaises ==
    /\ scrapePc = "ready"
    /\ scrapePc' = "raised"
    /\ UNCHANGED <<page, links, loginVars, nameVars, cleanVars, poolVars>>

NextScrape == GetDownloadLinks \/ GetDownloadLinksRaises

SpecScrape == InitScrape /\ [][NextScrape]_vars

(***************************************************************************)
(* SpecLogin: login against the site.                                      *)
(***************************************************************************)
\* main, lines 173-174
Username == "***"
Password == "***"

HiddenInputs ==
    {[name |-> "_wpnonce", value |-> "n1"],
     [name |-> "_wpnonce", value |-> "n2"],
     [name |-> "testcookie", value |-> "0"],
     [name |-> "log", value |-> "other"]}

\* the final URLs the site may answer the POST with
LoginFinalUrls ==
    {login_url,
     downloads_url,
     base_url \o <<"/","m","y","-","a","c","c","o","u","n","t","/">>,
     base_url \o <<"/">>,
     login_url \o <<"?","r","e","d","i","r","e","c","t","_","t","o","=">> \o downloads_url,
     login_url \o <<"?","a","c","t","i","o","n","=","l","o","s","t","p","a","s","s","w","o","r","d">>}

InitLogin ==
    /\ loginPc = "ready"
    /\ hidden = <<>>
    /\ loginData = <<>>
    /\ responseUrl = <<>>
    /\ loginResult = FALSE
    /\ ScrapeAtRest /\ NameAtRest /\ CleanAtRest /\ PoolAtRest

\* lines 25-39: the login page fetched and the payload built
LoginBuildPayload ==
    /\ loginPc = "ready"
    /\ \E h \in SeqsUpTo(HiddenInputs, MaxHidden) :
        /\ hidden' = h
        /\ loginData' = AddHidden(FixedLoginData(Username, Password), h)
    /\ loginPc' = "payload"
    /\ UNCHANGED <<responseUrl, loginResult, scrapeVars, nameVars, cleanVars, poolVars>>

\* lines 42-49: the payload posted and the final URL inspected
LoginSubmit ==
    /\ loginPc = "payload"
    /\ \E u \in LoginFinalUrls :
        /\ responseUrl' = u
        /\ loginResult' = LoginSucceeded(u)
    /\ loginPc' = "returned"
    /\ UNCHANGED <<hidden, loginData, scrapeVars, nameVars, cleanVars, poolVars>>

\* lines 25 and 42: session.get or session.post raises, and login has no handler
LoginRaises ==
    /\ loginPc \in {"ready", "payload"}
    /\ loginPc' = "raised"
    /\ UNCHANGED <<hidden, loginData, responseUrl, loginResult,
                   scrapeVars, nameVars, cleanVars, poolVars>>

NextLogin == LoginBuildPayload \/ LoginSubmit \/ LoginRaises

SpecLogin == InitLogin /\ [][NextLogin]_vars

(***************************************************************************)
(* Spec: download_all (lines 88-103) and the download_episode invocations  *)
(* (lines 105-166) its thread pool runs, on one output directory.          *)
(*                                                                         *)
(* The site: what each link target of the downloads page is and how the    *)
(* site answers a GET of it.                                               *)
(***************************************************************************)
Hrefs == {"u1", "u2"}

Site ==
    [h \in Hrefs |->
        IF h = "u1"
        THEN [url |-> base_url \o <<"/","?","d","o","w","n","l","o","a","d","_","f","i","l","e","=","4","8","2","1","&","o","r","d","e","r","=","w","c","_","o","r","d","e","r","_","1">>,
              resp |-> [hasDisp |-> FALSE, disp |-> <<>>,
                        url |-> base_url \o <<"/","d","o","w","n","l","o","a","d","s","/","d","o","w","n","l","o","a","d">>]]
        ELSE [url |-> base_url \o <<"/","?","o","r","d","e","r","=","w","c","_","o","r","d","e","r","_","1","&","d","o","w","n","l","o","a","d","_","f","i","l","e","=","7","7">>,
              resp |-> [hasDisp |-> TRUE,
                        disp |-> <<"a","t","t","a","c","h","m","e","n","t",";"," ">> \o FilenameToken
                                     \o <<"\"","E","p","i","s","o","d","e"," ","3","0","0",".","m","p","3","\"">>,
                        url |-> base_url \o <<"/","d","o","w","n","l","o","a","d","s","/","d","o","w","n","l","o","a","d">>]]]

\* lines 112-135 on the site's answer: the file name each link target resolves to
FileOf == [h \in Hrefs |-> CleanUp(ResolveFilename(Site[h].resp, Site[h].url))]

FileNames == {FileOf[h] : h \in Hrefs}

\* the rows of the downloads pages a batch is run on: well-formed rows
BatchRows ==
    {[th |-> FALSE, product |-> [present |-> TRUE, text |-> <<"\r", "\n", " ", " ", "E", "p", " ", "1", "\t", "", "\n">>],
      file |-> [present |-> TRUE, anchor |-> TRUE, href |-> h]] : h \in Hrefs}

BatchPages ==
    {[table |-> FALSE, rows |-> <<>>]}
    \cup {[table |-> TRUE, rows |-> r] : r \in SeqsUpTo(BatchRows, MaxCatalog)}

\* line 90: the catalogs get_download_links returns for these pages
BatchCatalogs == {DownloadLinks(pg) : pg \in BatchPages}

\* a file that is not there, and a chunk position no write has filled
NoFile == [exists |-> FALSE, data |-> <<>>]
Hole == "hole"

\* an invocation of download_with_title that the pool has not started yet.  Of an
\* invocation that has opened its file, off is the position of its file descriptor
\* (the chunks it has written to the file), buf the chunks f.write has left in the
\* buffer of the file object, reads the chunks taken from the body and writes the
\* calls of open and f.write made
Queued == [pc |-> "queued", calls |-> 0, off |-> 0, buf |-> 0, reads |-> 0,
           writes |-> 0, outcome |-> "none"]

\* the catalog positions
Items == 1..Len(episodes)

\* download_with_title has ended with the given outcome; the locals of the call
\* (downloaded, the file object) are gone, and with them the counts kept of its
\* body reads and its writes
Ended(i, outcome) ==
    [inv[i] EXCEPT !.pc = "done", !.off = 0, !.buf = 0, !.reads = 0, !.writes = 0,
                   !.outcome = outcome]

\* the file name the item's URL resolves to (line 137)
FileOfItem(i) == FileOf[episodes[i].url]

\* the invocations that a worker thread is running
Active == {i \in Items : inv[i].pc \notin {"queued", "done"}}

\* a pool that lets one invocation more than max_workers run
PoolThreadsOneMore == 1..(maxConcurrent + 1)

\* line 102: ThreadPoolExecutor(max_workers=max_concurrent)
PoolThreads == 1..maxConcurrent

\* an existence test that never finds the file
FileExistsNever(f) == FALSE

\* line 140: os.path.exists(filepath)
FileExists(f) == fs[f].exists

\* an open that leaves the data of a file that is already there
OpenedKeepingData(f) == [fs EXCEPT ![f] = [exists |-> TRUE, data |-> fs[f].data]]

\* line 150: open(filepath, 'wb') creates the file or truncates it
Opened(f) == [fs EXCEPT ![f] = [exists |-> TRUE, data |-> <<>>]]

\* lines 150 and 153: open(filepath, 'wb') gives a buffered file object, so a
\* chunk handed to f.write reaches the file only when the object writes to its
\* descriptor: n chunks of the body of h written at the descriptor's own position
\* off (0-based chunk position) land there, and positions the file does not hold
\* yet are holes; with nothing to write no write is made
Written(f, h, off, n) ==
    LET old == fs[f].data
        len == IF Len(old) > off + n THEN Len(old) ELSE off + n
    IN IF n = 0 THEN fs
       ELSE [fs EXCEPT ![f].data =
                [k \in 1..len |-> IF k > off /\ k <= off + n THEN h
                                  ELSE IF k <= Len(old) THEN old[k] ELSE Hole]]

\* lines 150 and 153: a write of the file object to its descriptor that ends in
\* OSError after j of its chunks.  The files of the model are made of whole
\* chunks: a chunk the failing write did not finish is not in the file
BrokenOff(i, j) == Written(FileOfItem(i), episodes[i].url, inv[i].off, j)

\* line 153, f.write when the buffer has no room for the chunk, and line 150, the
\* close on leaving the with-block: the chunks the buffer holds are written to
\* the file
Flushed(i) == Written(FileOfItem(i), episodes[i].url, inv[i].off, inv[i].buf)

\* a handler that removes the partial file
AfterStreamErrorRemoved(i) == [Flushed(i) EXCEPT ![FileOfItem(i)] = NoFile]

\* lines 150 and 165-166: the with-block closes the file on the way to the
\* handler, the handler prints; the file stays
AfterStreamError(i) == Flushed(i)

\* the results of executor.map consumed: the first stored exception is raised
BatchOutcomeConsumed ==
    IF \E i \in Items : inv[i].outcome = "raised" THEN "raised" ELSE "returned"

\* line 103: the iterator executor.map returns is dropped, so an exception stored
\* in a future is never raised in download_all
BatchOutcome == "returned"

\* lines 102-103: leaving the with-block joins the pool (shutdown(wait=True))
AllJoined == queue = <<>> /\ Active = {}

Init ==
    /\ batchPc = "idle"
    /\ episodes = <<>>
    /\ maxConcurrent = 1
    /\ queue = <<>>
    /\ inv = <<>>
    /\ fs = [f \in FileNames |-> NoFile]
    /\ LoginAtRest /\ ScrapeAtRest /\ NameAtRest /\ CleanAtRest

\* lines 88-103 up to the submission of the work items (executor.map submits every
\* item at once); an empty catalog returns at line 94
DownloadAll ==
    /\ batchPc = "idle"
    /\ \E catalog \in BatchCatalogs, mc \in 1..MaxConcurrent :
        /\ episodes' = catalog
        /\ maxConcurrent' = mc
    /\ inv' = [i \in 1..Len(episodes') |-> Queued]
    /\ queue' = [i \in 1..Len(episodes') |-> i]
    /\ batchPc' = IF episodes' = <<>> THEN "returned" ELSE "running"
    /\ UNCHANGED <<fs, loginVars, scrapeVars, nameVars, cleanVars>>

\* line 90: get_download_links raises (line 55) and download_all with it
DownloadAllScrapeRaises ==
    /\ batchPc = "idle"
    /\ batchPc' = "raised"
    /\ episodes' = <<>>
    /\ inv' = <<>>
    /\ queue' = <<>>
    /\ UNCHANGED <<maxConcurrent, fs, loginVars, scrapeVars, nameVars, cleanVars>>

\* a free worker thread takes the next work item: lines 98-100
StartItem(i) ==
    /\ batchPc = "running"
    /\ queue # <<>>
    /\ i = Head(queue)
    /\ Cardinality(Active) < Cardinality(PoolThreads)
    /\ queue' = Tail(queue)
    /\ inv' = [inv EXCEPT ![i].pc = "get", ![i].calls = @ + 1]
    /\ UNCHANGED <<batchPc, episodes, maxConcurrent, fs,
                   loginVars, scrapeVars, nameVars, cleanVars>>

\* lines 109-137: the streaming GET answered, the file name resolved
GetResponse(i) ==
    /\ i \in Items
    /\ inv[i].pc = "get"
    /\ inv' = [inv EXCEPT ![i].pc = "check"]
    /\ UNCHANGED <<batchPc, episodes, maxConcurrent, queue, fs,
                   loginVars, scrapeVars, nameVars, cleanVars>>

\* lines 109-110 and 165-166: session.get or raise_for_status raises a
\* RequestException; the handler prints and download_episode returns, no
\* "Downloading:" line (149) printed before the error
GetFails(i) ==
    /\ i \in Items
    /\ inv[i].pc = "get"
    /\ inv' = [inv EXCEPT ![i] = Ended(i, "get error")]
    /\ UNCHANGED <<batchPc, episodes, maxConcurrent, queue, fs,
                   loginVars, scrapeVars, nameVars, cleanVars>>

\* lines 140-142: the file is there, download_episode returns
SkipExisting(i) ==
    /\ i \in Items
    /\ inv[i].pc = "check"
    /\ FileExists(FileOfItem(i))
    /\ inv' = [inv EXCEPT ![i] = Ended(i, "skipped")]
    /\ UNCHANGED <<batchPc, episodes, maxConcurrent, queue, fs,
                   loginVars, scrapeVars, nameVars, cleanVars>>

\* lines 140-149: the file is not there and content-length is absent or a number
PassCheck(i) ==
    /\ i \in Items
    /\ inv[i].pc = "check"
    /\ ~FileExists(FileOfItem(i))
    /\ inv' = [inv EXCEPT ![i].pc = "open"]
    /\ UNCHANGED <<batchPc, episodes, maxConcurrent, queue, fs,
                   loginVars, scrapeVars, nameVars, cleanVars>>

\* line 145: the file is not there and content-length is not a number; int() raises
\* ValueError, which the handler of line 165 does not catch
ContentLengthRaises(i) ==
    /\ i \in Items
    /\ inv[i].pc = "check"
    /\ ~FileExists(FileOfItem(i))
    /\ inv' = [inv EXCEPT ![i] = Ended(i, "raised")]
    /\ UNCHANGED <<batchPc, episodes, maxConcurrent, queue, fs,
                   loginVars, scrapeVars, nameVars, cleanVars>>

\* line 150: the file opened for writing
OpenFile(i) ==
    /\ i \in Items
    /\ inv[i].pc = "open"
    /\ fs' = Opened(FileOfItem(i))
    /\ inv' = [inv EXCEPT ![i].pc = "stream", ![i].writes = @ + 1]
    /\ UNCHANGED <<batchPc, episodes, maxConcurrent, queue,
                   loginVars, scrapeVars, nameVars, cleanVars>>

\* line 150: open raises OSError, which the handler of line 165 does not catch
OpenRaises(i) ==
    /\ i \in Items
    /\ inv[i].pc = "open"
    /\ inv' = [inv EXCEPT ![i] = Ended(i, "raised")]
    /\ UNCHANGED <<batchPc, episodes, maxConcurrent, queue, fs,
                   loginVars, scrapeVars, nameVars, cleanVars>>

\* lines 151-154: one chunk read from the body and handed to f.write.  The file
\* object copies the chunk into its buffer when it has room for it; when it has
\* not, it first writes the chunks it holds to the file, and then keeps the chunk
\* in the emptied buffer or, the chunk being larger than the buffer, goes on to
\* write it to the file itself.  Which of these happens is a matter of the sizes
\* of the chunks iter_content yields and of the buffer
WriteChunk(i) ==
    /\ i \in Items
    /\ inv[i].pc = "stream"
    /\ inv[i].reads < BodyChunks
    /\ \/ /\ fs' = fs
          /\ inv' = [inv EXCEPT ![i].buf = @ + 1,
                                ![i].reads = @ + 1, ![i].writes = @ + 1]
       \/ /\ inv[i].buf > 0
          /\ fs' = Flushed(i)
          /\ inv' = [inv EXCEPT ![i].off = @ + inv[i].buf, ![i].buf = 1,
                                ![i].reads = @ + 1, ![i].writes = @ + 1]
       \/ /\ fs' = Flushed(i)
          /\ inv' = [inv EXCEPT ![i].pc = "write",
                                ![i].off = @ + inv[i].buf, ![i].buf = 0,
                                ![i].reads = @ + 1, ![i].writes = @ + 1]
    /\ UNCHANGED <<batchPc, episodes, maxConcurrent, queue,
                   loginVars, scrapeVars, nameVars, cleanVars>>

\* line 153: f.write, its buffer emptied, writes a chunk larger than the buffer to
\* the file
WriteThrough(i) ==
    /\ i \in Items
    /\ inv[i].pc = "write"
    /\ fs' = Written(FileOfItem(i), episodes[i].url, inv[i].off, 1)
    /\ inv' = [inv EXCEPT ![i].pc = "stream", ![i].off = @ + 1]
    /\ UNCHANGED <<batchPc, episodes, maxConcurrent, queue,
                   loginVars, scrapeVars, nameVars, cleanVars>>

\* line 153: f.write raises OSError, which the handler of line 165 does not
\* catch: the write of a chunk larger than the buffer fails, or, the buffer
\* having no room for the chunk, the write of the buffered chunks fails after
\* some of them.  The chunks not written stay in the buffer and the file stays
\* open: the with-block has still to close it
WriteRaises(i) ==
    /\ i \in Items
    /\ \/ /\ inv[i].pc = "write"
          /\ fs' = fs
          /\ inv' = [inv EXCEPT ![i].pc = "failed"]
       \/ /\ inv[i].pc = "stream"
          /\ inv[i].reads < BodyChunks
          /\ inv[i].buf > 0
          /\ \E j \in 0..(inv[i].buf - 1) :
                /\ fs' = BrokenOff(i, j)
                /\ inv' = [inv EXCEPT ![i].pc = "failed",
                                      ![i].off = @ + j, ![i].buf = @ - j,
                                      ![i].reads = @ + 1, ![i].writes = @ + 1]
    /\ UNCHANGED <<batchPc, episodes, maxConcurrent, queue,
                   loginVars, scrapeVars, nameVars, cleanVars>>

\* line 150: the with-block closes the file on the way out with the OSError of
\* f.write; the close writes what the buffer still holds, all of it or, failing
\* as well, some of it, and the OSError leaves download_episode
CloseAfterWriteRaised(i) ==
    /\ i \in Items
    /\ inv[i].pc = "failed"
    /\ \E j \in 0..inv[i].buf : fs' = BrokenOff(i, j)
    /\ inv' = [inv EXCEPT ![i] = Ended(i, "raised")]
    /\ UNCHANGED <<batchPc, episodes, maxConcurrent, queue,
                   loginVars, scrapeVars, nameVars, cleanVars>>

\* lines 150-151: the body exhausted or iter_content having raised, the with-block
\* closes the file and the write of the buffered chunks fails after some of
\* them: the close raises OSError, which the handler of line 165 does not catch
CloseRaises(i) ==
    /\ i \in Items
    /\ inv[i].pc = "stream"
    /\ inv[i].buf > 0
    /\ \E j \in 0..(inv[i].buf - 1) : fs' = BrokenOff(i, j)
    /\ inv' = [inv EXCEPT ![i] = Ended(i, "raised")]
    /\ UNCHANGED <<batchPc, episodes, maxConcurrent, queue,
                   loginVars, scrapeVars, nameVars, cleanVars>>

\* lines 151 and 165-166: iter_content raises a RequestException at a read of the
\* body, the read that follows the last chunk included (a body whose end is
\* lost); the with-block closes the file, which writes the buffered chunks, the
\* handler prints and download_episode returns, its error printed after the
\* "Downloading:" line (149)
StreamFails(i) ==
    /\ i \in Items
    /\ inv[i].pc = "stream"
    /\ fs' = AfterStreamError(i)
    /\ inv' = [inv EXCEPT ![i] = Ended(i, "stream error")]
    /\ UNCHANGED <<batchPc, episodes, maxConcurrent, queue,
                   loginVars, scrapeVars, nameVars, cleanVars>>

\* lines 150-151 and 163: the body is exhausted; leaving the with-block closes the
\* file, which writes the buffered chunks
Complete(i) ==
    /\ i \in Items
    /\ inv[i].pc = "stream"
    /\ inv[i].reads = BodyChunks
    /\ fs' = Flushed(i)
    /\ inv' = [inv EXCEPT ![i] = Ended(i, "completed")]
    /\ UNCHANGED <<batchPc, episodes, maxConcurrent, queue,
                   loginVars, scrapeVars, nameVars, cleanVars>>

\* lines 102-103: the with-block left, download_all ends
BatchEnds ==
    /\ batchPc = "running"
    /\ AllJoined
    /\ batchPc' = BatchOutcome
    /\ UNCHANGED <<episodes, maxConcurrent, queue, inv, fs,
                   loginVars, scrapeVars, nameVars, cleanVars>>

\* lines 169-178: download_all is the last call of main, so with its end the run
\* of the program ends; the next run starts with nothing but the output
\* directory as the last one left it
MainEnds ==
    /\ batchPc \in {"returned", "raised"}
    /\ batchPc' = "idle"
    /\ episodes' = <<>>
    /\ maxConcurrent' = 1
    /\ queue' = <<>>
    /\ inv' = <<>>
    /\ UNCHANGED <<fs, loginVars, scrapeVars, nameVars, cleanVars>>

Next ==
    \/ DownloadAll
    \/ DownloadAllScrapeRaises
    \/ BatchEnds
    \/ MainEnds
    \/ \E i \in 1..MaxCatalog :
        \/ StartItem(i)
        \/ GetResponse(i)
        \/ GetFails(i)
        \/ SkipExisting(i)
        \/ PassCheck(i)
        \/ ContentLengthRaises(i)
        \/ OpenFile(i)
        \/ OpenRaises(i)
        \/ WriteChunk(i)
        \/ WriteThrough(i)
        \/ WriteRaises(i)
        \/ CloseAfterWriteRaised(i)
        \/ CloseRaises(i)
        \/ StreamFails(i)
        \/ Complete(i)

Spec == Init /\ [][Next]_vars

(***************************************************************************)
(* The clean-up is idempotent.                                             *)
(***************************************************************************)
\* C8: every result of the clean-up ends with .mp3, and the clean-up applied to one
\* of its own results returns it unchanged (no second .mp3 is appended).
CleanUpIdempotent ==
    \A k \in 2..Len(cleanLog) :
        /\ EndsWith(cleanLog[k], Mp3)
        /\ (k >= 3 => cleanLog[k] = cleanLog[k - 1])

\* a raw name with a dropped character, a kept letter outside ASCII and no .mp3
\* suffix, cleaned twice
CleanUpTwiceReached ==
    /\ Len(cleanLog) = 3
    /\ \E i \in 1..Len(cleanLog[1]) : cleanLog[1][i] = "/"
    /\ \E i \in 1..Len(cleanLog[1]) : cleanLog[1][i] = "é"
    /\ \E i \in 1..Len(cleanLog[2]) : cleanLog[2][i] = "é"
    /\ ~EndsWith(cleanLog[1], Mp3)
    /\ cleanLog[2] # cleanLog[1]
    /\ cleanLog[3] = cleanLog[2]

(***************************************************************************)
(* The priority order of the filename resolution.                          *)
(***************************************************************************)
\* n copies of the character c
Run(c, n) == [i \in 1..n |-> c]

\* f is v with its surrounding double quotes, and then its surrounding single
\* quotes, removed
IsUnquoted(v, f) ==
    \E i, j, k, l \in 0..Len(v) :
        /\ v = Run("\"", i) \o Run("'", j) \o f \o Run("'", k) \o Run("\"", l)
        /\ LET w == Run("'", j) \o f \o Run("'", k)
           IN w # <<>> => w[1] # "\"" /\ w[Len(w)] # "\""
        /\ f # <<>> => f[1] # "'" /\ f[Len(f)] # "'"

\* the header carries a filename= token
TokenPresent == nameResp.hasDisp /\ Contains(nameResp.disp, FilenameToken)

\* what follows the last filename= token of the header
TokenValue ==
    LET d == nameResp.disp
        p == CHOOSE q \in Occurrences(d, FilenameToken) :
                 \A r \in Occurrences(d, FilenameToken) : r <= q
    IN SubSeq(d, p + Len(FilenameToken), Len(d))

\* the basename of the path of the final URL
FinalBasename == Basename(UrlPath(nameResp.url))

\* the value of the download_file parameter in the query of the requested URL: what
\* follows its last "download_file=" up to the next "&"; for a URL without the
\* parameter, the URL itself up to its first "&"
DownloadFileParam ==
    LET u == nameUrl
        n == Len(DownloadFileToken)
        at == {q \in 1..(Len(u) - n + 1) : SubSeq(u, q, q + n - 1) = DownloadFileToken}
        b == IF at = {} THEN 1
             ELSE n + (CHOOSE q \in at : \A r \in at : r <= q)
        e == CHOOSE q \in b..(Len(u) + 1) :
                 /\ q = Len(u) + 1 \/ u[q] = "&"
                 /\ \A r \in b..(q - 1) : u[r] # "&"
    IN SubSeq(u, b, e - 1)

SynthesizedName == EpisodePrefix \o DownloadFileParam \o Mp3

\* C6 as stated: whenever the header carries a filename= token its unquoted value
\* is the name, whatever it is; otherwise the basename of the final path is; and
\* the synthesized name is used exactly when there is no token and the basename
\* is empty or 'download'.
ResolutionByTokenPresence ==
    namePc = "resolved" =>
        /\ TokenPresent => IsUnquoted(TokenValue, filename)
        /\ (~TokenPresent /\ FinalBasename \notin {<<>>, DownloadWord})
               => filename = FinalBasename
        /\ (~TokenPresent /\ FinalBasename \in {<<>>, DownloadWord})
               <=> filename = SynthesizedName

\* the header gives a name: it carries a token whose unquoted value is not empty
HeaderGivesName == TokenPresent /\ ~IsUnquoted(TokenValue, <<>>)

\* C6, amended: the unquoted value of the header's filename= token is the name
\* when it is not empty; otherwise (no token, or an empty value) the basename of
\* the final path is; and the synthesized name is used exactly when the header
\* gives no name and that basename is empty or 'download'.
ResolutionPriority ==
    namePc = "resolved" =>
        /\ HeaderGivesName => IsUnquoted(TokenValue, filename) /\ filename # <<>>
        /\ (~HeaderGivesName /\ FinalBasename \notin {<<>>, DownloadWord})
               => filename = FinalBasename
        /\ (~HeaderGivesName /\ FinalBasename \in {<<>>, DownloadWord})
               <=> filename = SynthesizedName

\* a header whose filename= value is empty once unquoted, and the name taken from
\* the final URL instead
EmptyHeaderValueFallsBack ==
    /\ namePc = "resolved"
    /\ TokenPresent
    /\ IsUnquoted(TokenValue, <<>>)
    /\ FinalBasename \notin {<<>>, DownloadWord}
    /\ filename = FinalBasename

(***************************************************************************)
(* The catalog get_download_links returns.                                 *)
(***************************************************************************)
\* a row with no header cell that has a title cell, a download cell, an anchor of
\* the expected class and a link target
WellFormedRow(row) ==
    /\ ~row.th
    /\ row.product.present
    /\ row.file.present
    /\ row.file.anchor
    /\ row.file.href # None
    /\ row.file.href # ""

\* the positions of the page's well-formed rows
WellFormedAt == {i \in 1..Len(page.rows) : page.table /\ WellFormedRow(page.rows[i])}

\* the k-th well-formed row, in document order
KthWellFormed(k) ==
    CHOOSE i \in WellFormedAt : Cardinality({j \in WellFormedAt : j <= i}) = k

\* C7: get_download_links returns one entry per well-formed non-header row, in
\* document order, and nothing for any other row; the result is empty when the
\* table is absent or holds only header rows.
CatalogIsWellFormedRows ==
    scrapePc = "returned" =>
        /\ Len(links) = Cardinality(WellFormedAt)
        /\ \A k \in 1..Len(links) :
              /\ links[k].url = page.rows[KthWellFormed(k)].file.href
              /\ links[k].title = <<"E", "p", " ", "1">>
        /\ (~page.table \/ \A i \in 1..Len(page.rows) : page.rows[i].th)
               => links = <<>>

\* a page with a skipped row and two well-formed rows, returned in page order
CatalogSkipsAndKeepsOrder ==
    /\ scrapePc = "returned"
    /\ Len(page.rows) = 3
    /\ Cardinality(WellFormedAt) = 2
    /\ \E i \in 1..3 : ~page.rows[i].th /\ ~WellFormedRow(page.rows[i])
    /\ Len(links) = 2
    /\ links[1].url # links[2].url

(***************************************************************************)
(* The result of login.                                                    *)
(***************************************************************************)
\* C5 as stated: login returns true exactly when the path of the final URL contains
\* 'my-account', and it never raises.
LoginIffAccountInPath ==
    /\ loginPc # "raised"
    /\ loginPc = "returned"
           => (loginResult <=> Contains(UrlPath(responseUrl), MyAccount))

(***************************************************************************)
(* The batch fetcher.                                                      *)
(***************************************************************************)
\* C1: download_episode is invoked at most once per catalog entry at any time and
\* exactly once by the time download_all returns, never more than max_concurrent
\* invocations are active, and download_all returns only when every invocation
\* has ended.
DispatchedOnceWithinPool ==
    /\ Len(inv) = Len(episodes)
    /\ \A i \in Items : inv[i].calls <= 1
    /\ Cardinality(Active) <= maxConcurrent
    /\ batchPc = "returned" => \A i \in Items : inv[i].calls = 1 /\ inv[i].pc = "done"

\* a catalog with a duplicate and more entries than workers, run to the end
DuplicatesAllDispatched ==
    /\ batchPc = "returned"
    /\ Len(episodes) > maxConcurrent
    /\ episodes[1] = episodes[2]
    /\ \A i \in Items : inv[i].calls = 1

\* C4: download_all never raises once it has a catalog, however its items end, and
\* when it returns every entry has been dispatched and has run to its end.
BatchSurvivesItemFailures ==
    /\ batchPc = "raised" => episodes = <<>>
    /\ batchPc = "returned" => \A i \in Items : inv[i].pc = "done" /\ inv[i].outcome # "none"

\* a batch that returned with an item ended by an exception that left
\* download_episode and a later entry completed
LaterItemCompletesAfterFailure ==
    /\ batchPc = "returned"
    /\ \E i, j \in Items :
        /\ i < j
        /\ inv[i].outcome = "raised"
        /\ inv[j].outcome = "completed"

(***************************************************************************)
(* The item downloader.                                                    *)
(***************************************************************************)
\* C2: an invocation that checks for its file and finds it ends there as skipped:
\* it has read no chunk of the body and made no write, and the step leaves the
\* filesystem as it is.
SkipTouchesNothing ==
    [][\A i \in Items :
          (inv[i].pc = "check" /\ fs[FileOfItem(i)].exists /\ inv'[i].pc # "check")
              => /\ inv'[i].pc = "done"
                 /\ inv'[i].outcome = "skipped"
                 /\ inv[i].reads = 0 /\ inv[i].writes = 0
                 /\ inv'[i].reads = 0 /\ inv'[i].writes = 0
                 /\ fs' = fs]_vars

\* an invocation skipped, its file there
SkippedExistingFile ==
    \E i \in Items :
        /\ inv[i].outcome = "skipped"
        /\ fs[FileOfItem(i)].exists
        /\ fs[FileOfItem(i)].data # <<>>

\* C3 as stated: no failure leaves download_episode; every invocation returns
\* normally.
NoErrorEscapesDownloadEpisode ==
    \A i \in Items : inv[i].outcome # "raised"

\* C9: the open of line 150 does not look at the file again: an invocation that has
\* passed the existence check creates or truncates the file whatever it holds by
\* then, the chunks of another invocation included.
OpenTruncatesAfterCheck ==
    [][\A i \in Items :
          (inv[i].pc = "open" /\ inv'[i].pc = "stream")
              => /\ fs'[FileOfItem(i)].exists
                 /\ fs'[FileOfItem(i)].data = <<>>]_vars

\* two invocations of the same file name both past the check and writing, and a
\* chunk the first wrote gone by the open of the second
SecondOpenClobbersFirst ==
    \E i, j \in Items :
        /\ i # j
        /\ FileOfItem(i) = FileOfItem(j)
        /\ inv[i].pc = "stream"
        /\ inv[j].pc = "stream"
        /\ inv[i].off >= 1
        /\ Len(fs[FileOfItem(i)].data) < inv[i].off

\* the file is there and no invocation is between its existence check and the end
\* of its writes to it
Settled(f) ==
    /\ fs[f].exists
    /\ \A i \in Items : FileOfItem(i) = f => inv[i].pc \notin {"open", "stream", "write", "failed"}

\* the file holds less than a whole body
Partial(f) ==
    /\ fs[f].exists
    /\ \/ Len(fs[f].data) < BodyChunks
       \/ \E k \in 1..Len(fs[f].data) : fs[f].data[k] = Hole

\* C10: a body stream that fails with a network exception leaves its file on
\* disk, holding no less than it held, changed only by chunks of the body it was
\* reading and holes, and leaves every other file as it is; no file is ever
\* removed; every invocation that checks for a file that is there ends as
\* skipped, with nothing read or written and the filesystem left as it is; and a
\* file that is there with no invocation writing it stays exactly as it is and
\* gets no writer, in this run and in every later one: a partial file is never
\* completed.
PartialFileStays ==
    [][/\ \A i \in Items :
            (inv[i].pc = "stream" /\ inv'[i].pc = "done"
                 /\ inv'[i].outcome = "stream error")
                => LET f == FileOfItem(i)
                   IN /\ fs'[f].exists
                      /\ Len(fs'[f].data) >= Len(fs[f].data)
                      /\ \A k \in 1..Len(fs'[f].data) :
                            \/ k <= Len(fs[f].data) /\ fs'[f].data[k] = fs[f].data[k]
                            \/ fs'[f].data[k] \in {episodes[i].url, Hole}
                      /\ \A g \in FileNames : g # f => fs'[g] = fs[g]
       /\ \A f \in FileNames :
            /\ fs[f].exists => fs'[f].exists
            /\ Settled(f) => Settled(f)' /\ fs'[f] = fs[f]
       /\ \A i \in Items :
            (inv[i].pc = "check" /\ inv'[i].pc # "check" /\ fs[FileOfItem(i)].exists)
                => /\ inv'[i].pc = "done"
                   /\ inv'[i].outcome = "skipped"
                   /\ inv[i].reads = 0 /\ inv[i].writes = 0
                   /\ inv'[i].reads = 0 /\ inv'[i].writes = 0
                   /\ fs' = fs]_vars

\* a run has ended in which the body stream of an entry failed after a chunk had
\* reached the file, the file was left partial, and every later entry of the
\* same file name was skipped
PartialFileSkippedLater ==
    /\ batchPc = "returned"
    /\ \E i \in Items :
        /\ inv[i].outcome = "stream error"
        /\ Partial(FileOfItem(i))
        /\ fs[FileOfItem(i)].data # <<>>
        /\ \E j \in Items : j > i /\ FileOfItem(j) = FileOfItem(i)
        /\ \A j \in Items :
              (j # i /\ FileOfItem(j) = FileOfItem(i))
                  => j > i /\ inv[j].outcome = "skipped"

====
